---- MODULE Spec2Model ----
(***************************************************************************)
(* A model of src/main.py: the Cycle class, a permutation of {1..dim}      *)
(* stored as a sparse dict (only the moved points) plus a dimension.       *)
(*                                                                         *)
(* Python values are modelled as follows.                                  *)
(*   dict[int,int]  a sequence of pairs <<key, value>> with distinct keys, *)
(*                  in insertion order (what a Python dict iterates in);   *)
(*   list[int]      a sequence of integers;                                *)
(*   str            a sequence of one-character strings;                   *)
(*   Cycle object   a record [map |-> dict, dim |-> int];                  *)
(*   an exception   a record field err = TRUE in the operator's result.    *)
(* Not modelled: the isinstance check of __call__ (every argument here is  *)
(* an integer), the forms of int() beyond plain decimal digits (signs,     *)
(* underscores, non-ASCII digits and whitespace other than the space), and *)
(* the demonstration statements at the end of the file.                    *)
(***************************************************************************)
EXTENDS Integers, Sequences, FiniteSets, TLC

VARIABLES
    self,     \* the Cycle object the caller holds (the receiver of the methods)
    other,    \* the right operand of the last product
    third,    \* a third operand (the algebraic laws only)
    mapping,  \* the dict object passed to Cycle(mapping=, dimension=), as it is now
    cycle,    \* the list object passed to generate_single_cycle, as it is now
    string,   \* the text passed to Cycle.Cycle
    ret,      \* [err, val]: what the last call returned, or that it raised
    pc,       \* the last call
    given     \* the caller's input as written, before the call

vars == <<self, other, third, mapping, cycle, string, ret, pc, given>>

(***************************************************************************)
(* Bounds of the model.                                                    *)
(***************************************************************************)
\* the largest element (and dimension) of the Cycle objects built directly
MaxDim == 3
\* the largest element written in a cycle-notation text
MaxElem == 4
\* the largest total weight of the cycles written in a cycle-notation text
MaxTotal == 4
\* the longest raw (unstructured) text handed to the parser
MaxTextLen == 4

(***************************************************************************)
(* Generic helpers on sequences and integers.                              *)
(***************************************************************************)
Max(x, y) == IF x >= y THEN x ELSE y

Range(s) == {s[i] : i \in 1..Len(s)}

RECURSIVE SeqMax(_)
\* max(seq) of a non-empty list
SeqMax(s) == IF Len(s) = 1 THEN s[1] ELSE Max(s[1], SeqMax(Tail(s)))

Front(s) == SubSeq(s, 1, Len(s) - 1)

Last(s) == s[Len(s)]

\* list.remove(x) for an x that is in the list: drops its first occurrence
ListRemove(s, x) ==
    LET i == CHOOSE j \in 1..Len(s) : s[j] = x /\ \A k \in 1..(j-1) : s[k] # x
    IN  SubSeq(s, 1, i - 1) \o SubSeq(s, i + 1, Len(s))

RECURSIVE Concat(_)
Concat(ss) == IF ss = <<>> THEN <<>> ELSE ss[1] \o Concat(Tail(ss))

(***************************************************************************)
(* dict[int,int] as an insertion-ordered sequence of <<key, value>>.       *)
(***************************************************************************)
DictHas(d, k) == \E i \in 1..Len(d) : d[i][1] = k

DictGet(d, k) == d[CHOOSE i \in 1..Len(d) : d[i][1] = k][2]

\* d[k] = v: an existing key keeps its position, a new key goes last
DictSet(d, k, v) ==
    IF DictHas(d, k)
    THEN [i \in 1..Len(d) |-> IF d[i][1] = k THEN <<k, v>> ELSE d[i]]
    ELSE Append(d, <<k, v>>)

DictPop(d, k) == SelectSeq(d, LAMBDA e : e[1] # k)

(***************************************************************************)
(* Cycle.__init__ (main.py 62-71).  The loop pops the fixed-point entries  *)
(* out of the dict object the caller passed, then copies it.               *)
(***************************************************************************)
RECURSIVE StripLoop(_, _)
\* for key in keys: if mapping[key] == key: mapping.pop(key)
StripLoop(m, keys) ==
    IF keys = <<>> THEN m
    ELSE LET key == keys[1]
         IN  StripLoop(IF DictGet(m, key) = key THEN DictPop(m, key) ELSE m,
                       Tail(keys))

\* a faulty variant of StripFixed: the fixed-point entries are kept
StripFixed_kept(m) == m

\* what __init__ leaves in the caller's dict object
StripFixed(m) == StripLoop(m, [i \in 1..Len(m) |-> m[i][1]])

\* Cycle(): mapping is None
CycleDefault == [map |-> <<>>, dim |-> 0]

\* Cycle(mapping=m, dimension=d): the new object
CycleNew(m, d) == [map |-> StripFixed(m), dim |-> d]

get_dimension(c) == c.dim

(***************************************************************************)
(* Cycle.__call__ (main.py 118-123).                                       *)
(***************************************************************************)
Call(c, value) == IF ~DictHas(c.map, value) THEN value ELSE DictGet(c.map, value)

(***************************************************************************)
(* Cycle.generate_single_cycle (main.py 104-113).                          *)
(***************************************************************************)
RECURSIVE SingleLoop(_, _)
\* while len(seq) >= 2: current = seq.pop(0); mapping[current] = seq[0]
SingleLoop(seq, m) ==
    IF Len(seq) >= 2
    THEN SingleLoop(Tail(seq), DictSet(m, seq[1], seq[2]))
    ELSE m

\* a faulty variant of generate_single_cycle: seq.append(seq[0]) is missing, so the
\* last element is not mapped back to the first
generate_single_cycle_open(c) ==
    CycleNew(SingleLoop(c, <<>>), SeqMax(c))

\* seq = list(cycle) is a copy: the caller's list is not touched
generate_single_cycle(c) ==
    LET seq == c
        dim == SeqMax(seq)
    IN  CycleNew(SingleLoop(Append(seq, seq[1]), <<>>), dim)

(***************************************************************************)
(* Cycle.__mul__ (main.py 125-137).                                        *)
(***************************************************************************)
RECURSIVE MulLoop(_, _, _, _)
\* while to_check: current = to_check.pop(0); new_cycle[current] = self(cycle(current))
MulLoop(s, c, to_check, new_cycle) ==
    IF to_check = <<>> THEN new_cycle
    ELSE LET current == to_check[1]
         IN  MulLoop(s, c, Tail(to_check),
                     DictSet(new_cycle, current, Call(s, Call(c, current))))

\* a faulty variant of __mul__: the operands applied in the opposite order
__mul__swapped(s, c) ==
    LET dim == Max(get_dimension(s), get_dimension(c))
    IN  CycleNew(MulLoop(c, s, [x \in 1..dim |-> x], <<>>), dim)

\* a faulty variant of __mul__: the dimension of the left operand alone
__mul__selfdim(s, c) ==
    LET dim == get_dimension(s)
    IN  CycleNew(MulLoop(s, c, [x \in 1..dim |-> x], <<>>), dim)

__mul__(s, c) ==
    LET dim == Max(get_dimension(s), get_dimension(c))
    IN  CycleNew(MulLoop(s, c, [x \in 1..dim |-> x], <<>>), dim)

(***************************************************************************)
(* Cycle.inverse (main.py 186-188).                                        *)
(***************************************************************************)
RECURSIVE InverseLoop(_, _)
\* {value: key for key, value in self._map.items()}
InverseLoop(items, new_mapping) ==
    IF items = <<>> THEN new_mapping
    ELSE InverseLoop(Tail(items), DictSet(new_mapping, items[1][2], items[1][1]))

\* a faulty variant of inverse: the pairs are copied, not swapped
inverse_unswapped(s) == CycleNew(s.map, get_dimension(s))

inverse(s) == CycleNew(InverseLoop(s.map, <<>>), get_dimension(s))

(***************************************************************************)
(* str as a sequence of characters, and the str methods the parser and the *)
(* printer use.                                                            *)
(***************************************************************************)
Digits == <<"0", "1", "2", "3", "4", "5", "6", "7", "8", "9">>

IsDigit(ch) == ch \in Range(Digits)

DigitVal(ch) == (CHOOSE i \in 1..Len(Digits) : Digits[i] = ch) - 1

RECURSIVE str(_)
\* str(x) of an integer x >= 0: its decimal digits
str(x) == IF x < 10 THEN <<Digits[x + 1]>>
          ELSE Append(str(x \div 10), Digits[(x % 10) + 1])

RECURSIVE IntLoop(_, _)
IntLoop(tok, acc) ==
    IF tok = <<>> THEN acc ELSE IntLoop(Tail(tok), 10 * acc + DigitVal(tok[1]))

\* int(tok) raises ValueError unless tok is a non-empty run of digits
IntFails(tok) == tok = <<>> \/ \E i \in 1..Len(tok) : ~IsDigit(tok[i])

int(tok) == IntLoop(tok, 0)

\* string[1:-1]
Interior(s) == IF Len(s) <= 2 THEN <<>> ELSE SubSeq(s, 2, Len(s) - 1)

StartsWith(s, sep) == Len(s) >= Len(sep) /\ SubSeq(s, 1, Len(sep)) = sep

RECURSIVE SplitLoop(_, _, _)
\* s.split(sep): left to right, non-overlapping; "".split(sep) is [""]
SplitLoop(s, sep, piece) ==
    IF s = <<>> THEN <<piece>>
    ELSE IF StartsWith(s, sep)
         THEN <<piece>> \o SplitLoop(SubSeq(s, Len(sep) + 1, Len(s)), sep, <<>>)
         ELSE SplitLoop(Tail(s), sep, Append(piece, s[1]))

Split(s, sep) == SplitLoop(s, sep, <<>>)

RECURSIVE LStrip(_)
LStrip(s) == IF s # <<>> /\ s[1] = " " THEN LStrip(Tail(s)) ELSE s

RECURSIVE RStrip(_)
RStrip(s) == IF s # <<>> /\ Last(s) = " " THEN RStrip(Front(s)) ELSE s

\* x.strip()
Strip(s) == RStrip(LStrip(s))

RECURSIVE Join(_, _)
\* sep.join(parts)
Join(sep, parts) ==
    IF parts = <<>> THEN <<>>
    ELSE IF Len(parts) = 1 THEN parts[1]
    ELSE parts[1] \o sep \o Join(sep, Tail(parts))

(***************************************************************************)
(* Cycle.Cycle, the parser (main.py 73-102).  The result is               *)
(* [err |-> TRUE] when int() raises, else [err |-> FALSE, val |-> Cycle].  *)
(***************************************************************************)
\* [x.strip() for x in cycle.split(",") if x.strip() != ""]
Tokens(interior) ==
    LET parts == Split(interior, <<",">>)
        stripped == [i \in 1..Len(parts) |-> Strip(parts[i])]
    IN  SelectSeq(stripped, LAMBDA x : x # <<>>)

\* the token lists of the non-empty cycles, in textual order
TokenLists(s) ==
    LET bracketed == Split(Interior(s), <<")", "(">>)
        all == [i \in 1..Len(bracketed) |-> Tokens(bracketed[i])]
    IN  SelectSeq(all, LAMBDA tokens : tokens # <<>>)

RECURSIVE FoldLoop_swapped(_, _)
\* a faulty variant of FoldLoop: last * second, the cycle to the left applied first
FoldLoop_swapped(cycles, last) ==
    IF cycles = <<>> THEN last
    ELSE FoldLoop_swapped(Front(cycles), __mul__(last, generate_single_cycle(Last(cycles))))

RECURSIVE FoldLoop(_, _)
\* while len(cycles) > 1: last = cycles.pop();
\*     second = generate_single_cycle(cycles.pop()); cycles.append(second * last)
FoldLoop(cycles, last) ==
    IF cycles = <<>> THEN last
    ELSE FoldLoop(Front(cycles), __mul__(generate_single_cycle(Last(cycles)), last))

Cycle(s) ==
    LET toks == TokenLists(s)
        bad == \E i \in 1..Len(toks) : \E j \in 1..Len(toks[i]) : IntFails(toks[i][j])
        cycles == [i \in 1..Len(toks) |-> [j \in 1..Len(toks[i]) |-> int(toks[i][j])]]
    IN  IF bad THEN [err |-> TRUE, val |-> CycleDefault]
        ELSE IF cycles = <<>> THEN [err |-> FALSE, val |-> CycleDefault]
        ELSE [err |-> FALSE,
              val |-> FoldLoop(Front(cycles), generate_single_cycle(Last(cycles)))]

(***************************************************************************)
(* Cycle._create_representation (main.py 139-159).  to_check.remove raises *)
(* ValueError when the walk reaches an element that is no longer (or never *)
(* was) in to_check; that is [err |-> TRUE].                               *)
(***************************************************************************)
RECURSIVE InnerLoop(_, _, _, _)
\* the body of "while looping"; ends with the cycle walked and what is left
InnerLoop(s, to_check, cyc, current) ==
    IF current \notin Range(to_check)
    THEN [err |-> TRUE, to_check |-> to_check, cyc |-> cyc]
    ELSE LET left == ListRemove(to_check, current)
             grown == Append(cyc, current)
             nxt == Call(s, current)
         IN  IF nxt \in Range(grown)
             THEN [err |-> FALSE, to_check |-> left, cyc |-> grown]
             ELSE InnerLoop(s, left, grown, nxt)

RECURSIVE OuterLoop(_, _, _)
OuterLoop(s, to_check, cycles) ==
    IF to_check = <<>> THEN [err |-> FALSE, val |-> cycles]
    ELSE LET w == InnerLoop(s, to_check, <<>>, to_check[1])
         IN  IF w.err THEN [err |-> TRUE, val |-> cycles]
             ELSE OuterLoop(s, w.to_check,
                            IF Len(w.cyc) > 1 THEN Append(cycles, w.cyc) ELSE cycles)

_create_representation(s) ==
    OuterLoop(s, [x \in 1..get_dimension(s) |-> x], <<>>)

(***************************************************************************)
(* Cycle._prettify, __repr__ and decompose (main.py 161-184).              *)
(***************************************************************************)
\* a faulty variant of _prettify: the elements joined with "," alone
_prettify_nospace(representation) ==
    LET stringified == [i \in 1..Len(representation) |->
                          [j \in 1..Len(representation[i]) |-> str(representation[i][j])]]
        inner_join == [i \in 1..Len(stringified) |-> Join(<<",">>, stringified[i])]
        result == <<"(">> \o Join(<<")", "(">>, inner_join) \o <<")">>
    IN  IF result = <<"(", ")">> THEN <<"(", "1", ")">> ELSE result

_prettify(representation) ==
    LET stringified == [i \in 1..Len(representation) |->
                          [j \in 1..Len(representation[i]) |-> str(representation[i][j])]]
        inner_join == [i \in 1..Len(stringified) |-> Join(<<",", " ">>, stringified[i])]
        result == <<"(">> \o Join(<<")", "(">>, inner_join) \o <<")">>
    IN  IF result = <<"(", ")">> THEN <<"(", "1", ")">> ELSE result

__repr__(s) ==
    LET cycles == _create_representation(s)
    IN  IF cycles.err THEN [err |-> TRUE, val |-> <<>>]
        ELSE [err |-> FALSE, val |-> _prettify(cycles.val)]

\* a faulty variant of Transpositions: range(1, len(cycle)), the pairs ascending
Transpositions_ascending(cyc) ==
    [n \in 1..(Len(cyc) - 1) |-> <<cyc[1], cyc[n + 1]>>]

\* [[cycle[0], cycle[i]] for i in range(len(cycle)-1, 0, -1)]
Transpositions(cyc) ==
    [n \in 1..(Len(cyc) - 1) |-> <<cyc[1], cyc[Len(cyc) + 1 - n]>>]

decompose(s) ==
    LET cycles == _create_representation(s)
        representation == Concat([i \in 1..Len(cycles.val) |-> Transpositions(cycles.val[i])])
    IN  IF cycles.err THEN [err |-> TRUE, val |-> <<>>]
        ELSE [err |-> FALSE, val |-> _prettify(representation)]

(***************************************************************************)
(* The inputs the calls are made with.                                     *)
(***************************************************************************)
Injective(f) == \A i, j \in DOMAIN f : f[i] = f[j] => i = j

RECURSIVE SortedSeq(_)
\* the elements of a finite set of integers, ascending
SortedSeq(S) ==
    IF S = {} THEN <<>>
    ELSE LET m == CHOOSE x \in S : \A y \in S : x <= y
         IN  <<m>> \o SortedSeq(S \ {m})

\* the dict {k: f[k] for k in sorted(DOMAIN f)}
AsDict(f) == LET keys == SortedSeq(DOMAIN f)
             IN  [i \in 1..Len(keys) |-> <<keys[i], f[keys[i]]>>]

\* the bijections of a set onto itself
Bijections(S) == {f \in [S -> S] : Injective(f)}

\* raw dicts a caller may pass: a bijection of some keys up to n onto
\* themselves, fixed-point entries key -> key included
RawMappings(n) == {AsDict(f) : f \in UNION {Bijections(S) : S \in SUBSET (1..n)}}

MaxKey(m) == IF m = <<>> THEN 0 ELSE SeqMax([i \in 1..Len(m) |-> m[i][1]])

\* lists of one or more distinct elements of 1..n
CycleSeqs(n) ==
    {c \in UNION {[1..k -> 1..n] : k \in 1..n} : Injective(c)}

\* the weight of a cycle as written: its number of elements, and that of a
\* cycle of two for the empty cycle "()"
Weight(c) == IF c = <<>> THEN 2 ELSE Len(c)

\* the written cycles over 1..n of weight k
Written(n, k) == {c \in CycleSeqs(n) \cup {<<>>} : Weight(c) = k}

RECURSIVE ListsByWeight(_, _, _)
\* acc[j + 1] is the set of lists of total weight j, for j < Len(acc);
\* the result carries on up to total weight w
ListsByWeight(n, w, acc) ==
    IF Len(acc) > w THEN acc
    ELSE LET k == Len(acc)
             next == UNION {{<<c>> \o rest : c \in Written(n, j), rest \in acc[k - j + 1]} :
                               j \in 1..k}
         IN  ListsByWeight(n, w, Append(acc, next))

\* the lists of written cycles over 1..n of total weight at most w
CycleLists(n, w) == UNION Range(ListsByWeight(n, w, <<{<<>>}>>))

\* the text of a list of cycles in the notation "(a, b, c)(d)(e, f)"
Numeral(e) == <<Digits[e + 1]>>

RECURSIVE Items(_)
Items(c) == IF c = <<>> THEN <<>>
            ELSE IF Len(c) = 1 THEN Numeral(c[1])
            ELSE Numeral(c[1]) \o <<",", " ">> \o Items(Tail(c))

RECURSIVE Notation(_)
Notation(cs) == IF cs = <<>> THEN <<>>
                ELSE <<"(">> \o Items(cs[1]) \o <<")">> \o Notation(Tail(cs))

\* the Cycle objects over 1..d, d <= n, as the constructor builds them
Cycles(n) ==
    UNION {{CycleNew(AsDict(f), d) : f \in Bijections(1..d)} : d \in 0..n}

Alphabet == {"(", ")", ",", " ", "1", "2", "x"}

\* every text of at most n characters
RawTexts(n) == UNION {[1..k -> Alphabet] : k \in 0..n}

NoRet == [err |-> FALSE, val |-> <<>>]

Returned(v) == [err |-> FALSE, val |-> v]

\* the calls that return a Cycle
CycleCalls == {"new", "single", "parse", "mul", "rmul", "inverse"}

(***************************************************************************)
(* Spec: a caller that holds one Cycle object and makes any call on it,    *)
(* one call at a time: a call is made when the caller is idle, and its     *)
(* result is then multiplied with self, kept as the new self, or dropped.  *)
(***************************************************************************)
Init ==
    /\ self = CycleDefault
    /\ other = CycleDefault
    /\ third = CycleDefault
    /\ mapping = <<>>
    /\ cycle = <<>>
    /\ string = <<>>
    /\ ret = NoRet
    /\ pc = "idle"
    /\ given = <<>>

\* Cycle(mapping=m, dimension=d): __init__ works on the caller's dict object
New(m, d) ==
    /\ pc = "idle"
    /\ given' = m
    /\ mapping' = StripFixed(m)
    /\ ret' = Returned(CycleNew(m, d))
    /\ pc' = "new"
    /\ cycle' = <<>> /\ string' = <<>> /\ other' = CycleDefault
    /\ UNCHANGED <<self, third>>

\* Cycle.generate_single_cycle(c): works on a copy of the caller's list
Single(c) ==
    /\ pc = "idle"
    /\ given' = c
    /\ cycle' = c
    /\ ret' = Returned(generate_single_cycle(c))
    /\ pc' = "single"
    /\ mapping' = <<>> /\ string' = <<>> /\ other' = CycleDefault
    /\ UNCHANGED <<self, third>>

\* Cycle.Cycle(s)
Parse(s) ==
    /\ pc = "idle"
    /\ string' = s
    /\ ret' = Cycle(s)
    /\ pc' = "parse"
    /\ mapping' = <<>> /\ cycle' = <<>> /\ given' = <<>> /\ other' = CycleDefault
    /\ UNCHANGED <<self, third>>

\* self * r ("mul") and r * self ("rmul"), for the Cycle r the last call returned
Mul ==
    /\ pc \in CycleCalls /\ ~ret.err
    /\ other' = ret.val
    /\ \/ /\ ret' = Returned(__mul__(self, ret.val))
          /\ pc' = "mul"
       \/ /\ ret' = Returned(__mul__(ret.val, self))
          /\ pc' = "rmul"
    /\ mapping' = <<>> /\ cycle' = <<>> /\ string' = <<>> /\ given' = <<>>
    /\ UNCHANGED <<self, third>>

\* a call on self alone: its result, and the caller's temporaries dropped
OnSelf(name, result) ==
    /\ pc = "idle"
    /\ ret' = result
    /\ pc' = name
    /\ mapping' = <<>> /\ cycle' = <<>> /\ string' = <<>> /\ given' = <<>>
    /\ other' = CycleDefault
    /\ UNCHANGED <<self, third>>

\* self.inverse()
Inverse == OnSelf("inverse", Returned(inverse(self)))

\* self(x)
Apply(x) == OnSelf("call", Returned(Call(self, x)))

\* str(self)
Repr == OnSelf("repr", __repr__(self))

\* self.decompose()
Decompose == OnSelf("decompose", decompose(self))

\* the caller keeps the Cycle just returned and drops its temporaries
Keep ==
    /\ pc \in CycleCalls /\ ~ret.err
    /\ self' = ret.val
    /\ other' = CycleDefault
    /\ mapping' = <<>>
    /\ cycle' = <<>>
    /\ string' = <<>>
    /\ given' = <<>>
    /\ ret' = NoRet
    /\ pc' = "idle"
    /\ UNCHANGED third

\* the caller drops the result of the last call and its temporaries
Drop ==
    /\ pc # "idle"
    /\ other' = CycleDefault
    /\ mapping' = <<>>
    /\ cycle' = <<>>
    /\ string' = <<>>
    /\ given' = <<>>
    /\ ret' = NoRet
    /\ pc' = "idle"
    /\ UNCHANGED <<self, third>>

Next ==
    \/ \E m \in RawMappings(MaxDim) : \E d \in MaxKey(m)..MaxDim : New(m, d)
    \/ \E c \in CycleSeqs(MaxDim) : Single(c)
    \/ \E cs \in CycleLists(MaxDim, MaxDim) : Parse(Notation(cs))
    \/ Mul
    \/ Inverse
    \/ \E x \in 1..MaxDim : Apply(x)
    \/ Repr
    \/ Decompose
    \/ Keep
    \/ Drop

Spec == Init /\ [][Next]_vars

(***************************************************************************)
(* SpecLaws: three Cycle objects, and the compound calls the algebraic     *)
(* laws are about.                                                         *)
(***************************************************************************)
InitLaws ==
    /\ self \in Cycles(MaxDim)
    /\ other \in Cycles(MaxDim)
    /\ third \in Cycles(MaxDim)
    /\ mapping = <<>>
    /\ cycle = <<>>
    /\ string = <<>>
    /\ ret = NoRet
    /\ pc = "start"
    /\ given = <<>>

Law(name, result) ==
    /\ pc = "start"
    /\ ret' = result
    /\ pc' = name
    /\ UNCHANGED <<self, other, third, mapping, cycle, string, given>>

\* str(self * self.inverse()), and self.inverse() itself
ComposeInverse ==
    LET inv == inverse(self)
        r == __repr__(__mul__(self, inv))
    IN  Law("compose_inverse", [err |-> r.err, val |-> r.val, inv |-> inv])

\* str((self * other) * third) and str(self * (other * third))
Associate ==
    LET left == __repr__(__mul__(__mul__(self, other), third))
        right == __repr__(__mul__(self, __mul__(other, third)))
    IN  Law("associate", [err |-> left.err \/ right.err, val |-> <<left.val, right.val>>])

\* str(Cycle.Cycle(self.decompose())), and self.decompose() itself
DecomposeRoundTrip ==
    LET text == decompose(self)
        back == Cycle(text.val)
        r == __repr__(back.val)
    IN  Law("decompose_round_trip",
            [err |-> text.err \/ back.err \/ r.err, val |-> r.val, text |-> text.val])

NextLaws == ComposeInverse \/ Associate \/ DecomposeRoundTrip

SpecLaws == InitLaws /\ [][NextLaws]_vars

(***************************************************************************)
(* SpecText: a text in cycle notation is parsed and the result printed.    *)
(* SpecRaw: the same on every short text over Alphabet.  SpecSingle: one   *)
(* cycle is built by generate_single_cycle and the result printed.         *)
(***************************************************************************)
InitText ==
    /\ given \in CycleLists(MaxElem, MaxTotal)
    /\ string = Notation(given)
    /\ self = CycleDefault
    /\ other = CycleDefault
    /\ third = CycleDefault
    /\ mapping = <<>>
    /\ cycle = <<>>
    /\ ret = NoRet
    /\ pc = "start"

InitRaw ==
    /\ string \in RawTexts(MaxTextLen)
    /\ given = <<>>
    /\ self = CycleDefault
    /\ other = CycleDefault
    /\ third = CycleDefault
    /\ mapping = <<>>
    /\ cycle = <<>>
    /\ ret = NoRet
    /\ pc = "start"

InitSingle ==
    /\ cycle \in CycleSeqs(MaxElem)
    /\ given = cycle
    /\ string = <<>>
    /\ self = CycleDefault
    /\ other = CycleDefault
    /\ third = CycleDefault
    /\ mapping = <<>>
    /\ ret = NoRet
    /\ pc = "start"

\* Cycle.Cycle(string)
TextParse ==
    /\ pc = "start"
    /\ ret' = Cycle(string)
    /\ pc' = "parse"
    /\ UNCHANGED <<self, other, third, mapping, cycle, string, given>>

\* Cycle.generate_single_cycle(cycle)
TextSingle ==
    /\ pc = "start"
    /\ cycle # <<>>
    /\ ret' = Returned(generate_single_cycle(cycle))
    /\ pc' = "single"
    /\ UNCHANGED <<self, other, third, mapping, cycle, string, given>>

\* str() of the Cycle just returned
TextRepr ==
    /\ pc \in {"parse", "single"} /\ ~ret.err
    /\ self' = ret.val
    /\ ret' = __repr__(ret.val)
    /\ pc' = "repr"
    /\ UNCHANGED <<other, third, mapping, cycle, string, given>>

NextText == TextParse \/ TextRepr

SpecText == InitText /\ [][NextText]_vars

NextSingle == TextSingle \/ TextRepr

SpecSingle == InitSingle /\ [][NextSingle]_vars

NextRaw == TextParse \/ TextRepr

SpecRaw == InitRaw /\ [][NextRaw]_vars

(***************************************************************************)
(* The properties.                                                         *)
(***************************************************************************)
\* the Cycle objects a state holds
Live == {self, other, third} \cup
        (IF pc \in CycleCalls /\ ~ret.err THEN {ret.val} ELSE {})

\* the permutation a written cycle denotes: each element to the next, the
\* last to the first, any other element to itself
CycleImage(c, x) ==
    IF \E i \in 1..Len(c) : c[i] = x
    THEN LET i == CHOOSE j \in 1..Len(c) : c[j] = x
         IN  c[(i % Len(c)) + 1]
    ELSE x

RECURSIVE ApplyAll(_, _)
\* C1(C2(...Cn(x)...)) for cs = <<C1, ..., Cn>>
ApplyAll(cs, x) ==
    IF cs = <<>> THEN x ELSE CycleImage(cs[1], ApplyAll(Tail(cs), x))

Reverse(s) == [i \in 1..Len(s) |-> s[Len(s) + 1 - i]]

NonEmpty(cs) == SelectSeq(cs, LAMBDA c : c # <<>>)

Largest(cs) == SeqMax([i \in 1..Len(cs) |-> SeqMax(cs[i])])

\* a written cycle turned so that its smallest element comes first
RotateToMin(c) ==
    LET i == CHOOSE j \in 1..Len(c) : \A k \in 1..Len(c) : c[j] <= c[k]
    IN  SubSeq(c, i, Len(c)) \o SubSeq(c, 1, i - 1)

\* what the claims say of a text: its cycles are disjoint, none is a
\* singleton or empty, and their first elements ascend strictly
AsStated(cs) ==
    /\ cs # <<>>
    /\ \A i \in 1..Len(cs) : Len(cs[i]) >= 2
    /\ \A i, j \in 1..Len(cs) : i # j => Range(cs[i]) \cap Range(cs[j]) = {}
    /\ \A i \in 1..(Len(cs) - 1) : cs[i][1] < cs[i + 1][1]

MinFirst(cs) == \A i \in 1..Len(cs) : RotateToMin(cs[i]) = cs[i]

\* C1: after a product, the result's dimension is the larger of the
\* operands' dimensions and on every x of 1..dimension the result applies
\* the right operand first and the left operand to its image
C1_ComposeApplies ==
    pc \in {"mul", "rmul"} =>
        LET a == IF pc = "mul" THEN self ELSE other
            b == IF pc = "mul" THEN other ELSE self
            r == ret.val
        IN  /\ ~ret.err
            /\ get_dimension(r) = Max(get_dimension(a), get_dimension(b))
            /\ \A x \in 1..Max(get_dimension(a), get_dimension(b)) :
                   Call(r, x) = Call(a, Call(b, x))

\* C1 witness: a product of two operands of different dimensions that do
\* not commute, whose result has an image stripped as a fixed point
C1_Witness ==
    /\ pc = "mul"
    /\ get_dimension(self) # get_dimension(other)
    /\ \E x \in 1..MaxDim : Call(self, Call(other, x)) # Call(other, Call(self, x))
    /\ ret.val.map # <<>>
    /\ Len(ret.val.map) < get_dimension(ret.val)

\* C2: no Cycle object that exists stores a key whose value is the key
C2_NoFixedPointStored ==
    \A c \in Live : \A i \in 1..Len(c.map) : c.map[i][1] # c.map[i][2]

\* C2 witness: a Cycle built from a raw dict that has a fixed-point entry
\* and a moved point
C2_Witness ==
    /\ pc = "new"
    /\ \E i \in 1..Len(given) : given[i][1] = given[i][2]
    /\ ret.val.map # <<>>

\* C8 as stated: after a call the objects the caller passed are what they were
C8_InputsUnchanged ==
    /\ pc = "new" => mapping = given
    /\ pc = "single" => cycle = given

\* C5: for a bijection self, self * self.inverse() prints as "(1)" and the
\* inverse has self's dimension
C5_ComposeInverseIsIdentity ==
    pc = "compose_inverse" =>
        /\ ~ret.err
        /\ ret.val = <<"(", "1", ")">>
        /\ get_dimension(ret.inv) = get_dimension(self)

\* C5 witness: the inverse of a Cycle that is not its own inverse
C5_Witness ==
    /\ pc = "compose_inverse"
    /\ \E x \in 1..MaxDim : Call(ret.inv, x) # Call(self, x)

\* C6: (self * other) * third and self * (other * third) print the same
C6_Associative ==
    pc = "associate" => ~ret.err /\ ret.val[1] = ret.val[2]

\* C6 witness: three operands of three different dimensions, the first two
\* not commuting, with a product that is not the identity
C6_Witness ==
    /\ pc = "associate"
    /\ Cardinality({get_dimension(self), get_dimension(other), get_dimension(third)}) = 3
    /\ \E x \in 1..MaxDim : Call(self, Call(other, x)) # Call(other, Call(self, x))
    /\ ~ret.err
    /\ ret.val[1] # <<"(", "1", ")">>

\* C10: the text decompose returns lists, for each cycle c0 ... ck-1 that
\* is extracted, the transpositions (c0, ck-1), ..., (c0, c1) in that order
\* ("(1)" when there is no cycle), and parsed back it prints as self does
C10_DecomposeFactors ==
    pc = "decompose_round_trip" =>
        LET cycles == _create_representation(self).val
            pairs == Concat([i \in 1..Len(cycles) |->
                        [n \in 1..(Len(cycles[i]) - 1) |->
                            <<cycles[i][1], cycles[i][Len(cycles[i]) + 1 - n]>>]])
        IN  /\ ~ret.err
            /\ ret.text = (IF pairs = <<>> THEN <<"(", "1", ")">> ELSE Notation(pairs))
            /\ __repr__(self) = Returned(ret.val)

\* C10 witness: the decomposition of a cycle of three or more elements
C10_Witness ==
    /\ pc = "decompose_round_trip"
    /\ Len(self.map) >= 3
    /\ Len(_create_representation(self).val) = 1

\* C3 as stated: a text of disjoint cycles, none a singleton, first
\* elements strictly ascending, parses and prints back as itself
C3_RoundTripAsStated ==
    (pc = "repr" /\ AsStated(given)) => ret = Returned(string)

\* C3 amended: the same when moreover every cycle starts with its smallest
\* element
C3_RoundTripMinFirst ==
    (pc = "repr" /\ AsStated(given) /\ MinFirst(given)) =>
        ret = Returned(string)

\* C3 witness: the round trip of a text of two cycles
C3_Witness ==
    /\ pc = "repr"
    /\ AsStated(given) /\ MinFirst(given)
    /\ Len(given) = 2

\* the mapping and dimension C4 states for the cycle e0 ... ek
SingleAsStated(c) ==
    /\ self.map = [i \in 1..Len(c) |-> <<c[i], c[(i % Len(c)) + 1]>>]
    /\ get_dimension(self) = SeqMax(c)

\* C4 as stated: the single cycle built from two or more distinct elements
\* maps each to the next, has the largest as dimension, and prints in the
\* listed order from the first-listed element
C4_PrintsAsListed ==
    (pc = "repr" /\ Len(cycle) >= 2) =>
        SingleAsStated(cycle) /\ ret = Returned(Notation(<<cycle>>))

\* C4 amended: it prints in the listed cyclic order from its smallest element
C4_PrintsFromSmallest ==
    (pc = "repr" /\ Len(cycle) >= 2) =>
        SingleAsStated(cycle) /\ ret = Returned(Notation(<<RotateToMin(cycle)>>))

\* C4 witness: generate_single_cycle([2, 3, 1]) printed as "(1, 2, 3)"
C4_Witness ==
    /\ pc = "repr"
    /\ cycle = <<2, 3, 1>>
    /\ ret.val = <<"(", "1", ",", " ", "2", ",", " ", "3", ")">>

\* C9: the parser returns the composition of the written non-empty cycles
\* with the leftmost outermost, on every x up to the largest integer written
C9_LeftCycleOuter ==
    (pc = "parse" /\ NonEmpty(given) # <<>>) =>
        LET cs == NonEmpty(given)
        IN  /\ ~ret.err
            /\ get_dimension(ret.val) = Largest(cs)
            /\ \A x \in 1..Largest(cs) : Call(ret.val, x) = ApplyAll(cs, x)

\* C9 witness: a parsed text whose cycles share elements and whose reading
\* in the opposite order is another permutation
C9_Witness ==
    /\ pc = "parse"
    /\ Len(NonEmpty(given)) >= 2
    /\ \E x \in 1..MaxElem : ApplyAll(NonEmpty(given), x) # ApplyAll(Reverse(NonEmpty(given)), x)

RECURSIVE Depth(_, _)
\* the nesting depth after reading s from depth d; -1 once a parenthesis
\* closes nothing or opens inside another
Depth(s, d) ==
    IF d < 0 \/ s = <<>> THEN d
    ELSE IF s[1] = "(" THEN Depth(Tail(s), IF d = 0 THEN 1 ELSE -1)
    ELSE IF s[1] = ")" THEN Depth(Tail(s), IF d = 1 THEN 0 ELSE -1)
    ELSE Depth(Tail(s), d)

Unbalanced(s) == Depth(s, 0) # 0

\* C7 as stated: a text with unbalanced parentheses or a character that is
\* no part of an integer makes the parser raise
C7_MalformedRejected ==
    (pc = "parse" /\ (Unbalanced(string) \/ \E i \in 1..Len(string) : string[i] = "x"))
        => ret.err

====
